---------------------------- MODULE Spec2Model ----------------------------
(***************************************************************************)
(* A model of python_gelbooru: the AsyncGelbooru client (booru_async.py)   *)
(* and the Post / Comment / Tag records with the download helpers          *)
(* (classes.py).                                                           *)
(*                                                                         *)
(* A single caller task drives the client: it constructs clients, awaits   *)
(* one operation at a time and closes clients.  Every operation is split   *)
(* at its one suspension point (the GET): the part before it (parameter    *)
(* checks, URL building) and the part after it (decoding and mapping the   *)
(* response).  The remote service and the transport are nondeterministic.  *)
(* Remote records are well formed in the fields no check below reads       *)
(* (timestamps parse, numeric strings are digits).                         *)
(***************************************************************************)
EXTENDS Integers, Sequences, FiniteSets, TLC

\* ------------------------------------------------------------------ bounds
MaxFacades  == 2    \* clients constructed in one run
MaxRecords  == 2    \* records in one JSON response
MaxComments == 2    \* <comment> elements in one XML response
MaxTagLen   == 3    \* characters in one tag given to the formatter
MaxTags     == 1    \* tags in the free tag list given to the formatter
MaxSetSize  == 2    \* elements of the Python set of Tag values

VARIABLES
    session,   \* client id -> "none" | "open" | "closed": self.session
    url,       \* client id -> the credential part of self.url
    held,      \* the clients the caller obtained from a constructor
    call,      \* the operation being awaited, or the last one's outcome
    fmtIn,     \* the arguments given to _format_tags
    fmtOut,    \* what _format_tags made of them
    tagSet,    \* a Python set of Tag values, in insertion order
    mapIn,     \* a decoded row given to the Post(...) / Tag(...) mapping
    mapOut     \* the record the mapping built from it, or what it raised

vars == <<session, url, held, call, fmtIn, fmtOut, tagSet, mapIn, mapOut>>

\* ------------------------------------------------------- Python values
None == [tag |-> "None"]
Some(v) == [tag |-> "Some", v |-> v]

\* bool(x) of an Optional[str]: None and "" are false
TruthyStr(o) == o.tag = "Some" /\ o.v # ""
\* bool(x) of an Optional[int]: None and 0 are false
TruthyInt(o) == o.tag = "Some" /\ o.v # 0
\* bool(x) of an optional list, or of a path given as characters
TruthySeq(o) == o.tag = "Some" /\ Len(o.v) > 0

\* a decoded JSON scalar: a string (its characters, in s) or an integer (n)
JStr(s) == [t |-> "str", s |-> s, n |-> 0]
JInt(n) == [t |-> "int", s |-> <<>>, n |-> n]

\* x == y on JSON scalars: a string never equals an integer
py_eq(x, y) == x.t = y.t /\ x.s = y.s /\ x.n = y.n

\* bool(x) of a JSON scalar: "" and 0 are false
bool(x) == IF x.t = "str" THEN x.s # <<>> ELSE x.n # 0

\* the sequences over S of length at most n
SeqsUpTo(S, n) == UNION {[1..k -> S] : k \in 0..n}

Range(s) == {s[i] : i \in 1..Len(s)}

\* ------------------------------------------------ str methods, on characters
IsSpace(c) == c = " "

\* str.lower() on one character
LowerChar(c) ==
    CASE c = "A" -> "a" [] c = "B" -> "b" [] c = "C" -> "c" [] c = "D" -> "d"
      [] c = "E" -> "e" [] c = "S" -> "s" [] OTHER -> c

lower(s) == [i \in 1..Len(s) |-> LowerChar(s[i])]

\* str.replace(old, new) for one-character old and new
replace(s, old, new) == [i \in 1..Len(s) |-> IF s[i] = old THEN new ELSE s[i]]

RECURSIVE lstrip_ws(_)
lstrip_ws(s) == IF s # <<>> /\ IsSpace(Head(s)) THEN lstrip_ws(Tail(s)) ELSE s

RECURSIVE rstrip_ws(_)
rstrip_ws(s) ==
    IF s # <<>> /\ IsSpace(s[Len(s)]) THEN rstrip_ws(SubSeq(s, 1, Len(s) - 1)) ELSE s

\* str.strip(): surrounding whitespace off both ends
strip(s) == rstrip_ws(lstrip_ws(s))

\* str.lstrip(c): every leading c off
RECURSIVE lstrip(_, _)
lstrip(s, c) == IF s # <<>> /\ Head(s) = c THEN lstrip(Tail(s), c) ELSE s

\* str.rstrip(c): every trailing c off
RECURSIVE rstrip(_, _)
rstrip(s, c) ==
    IF s # <<>> /\ s[Len(s)] = c THEN rstrip(SubSeq(s, 1, Len(s) - 1), c) ELSE s

\* sep.join(parts)
RECURSIVE join(_, _)
join(sep, parts) ==
    IF parts = <<>> THEN <<>>
    ELSE IF Len(parts) = 1 THEN parts[1]
    ELSE parts[1] \o sep \o join(sep, Tail(parts))

\* ------------------------------------------------------- _format_tags
\* one include entry: tag.strip().lower().replace(' ', '_')
FormatInclude(tag) == replace(lower(strip(tag)), " ", "_")

\* the exclude entry with the lstrip('-') forgotten
FormatExcludeNoLstrip(tag) == <<"-">> \o replace(lower(strip(tag)), " ", "_")

\* one exclude entry: '-' + tag.strip().lstrip('-').lower().replace(' ', '_')
FormatExclude(tag) == <<"-">> \o replace(lower(lstrip(strip(tag), "-")), " ", "_")

IncludeEntries(include_tags) ==
    [i \in 1..Len(include_tags) |-> FormatInclude(include_tags[i])]

ExcludeEntries(exclude_tags) ==
    IF TruthySeq(exclude_tags)
    THEN [i \in 1..Len(exclude_tags.v) |-> FormatExclude(exclude_tags.v[i])]
    ELSE <<>>

\* include + '+' + exclude
_format_tags(include_tags, exclude_tags) ==
    join(<<"+">>, IncludeEntries(include_tags)) \o <<"+">>
        \o join(<<"+">>, ExcludeEntries(exclude_tags))


\* ------------------------------------------------------------ the remote
\* the post rows the remote service may send (the fields read below)
RawPosts ==
    { [id |-> 1, md5 |-> "m1", image |-> <<"i", ".", "j">>, file_url |-> "u1",
       has_notes |-> JStr(<<"t", "r", "u", "e">>),
       has_comments |-> JStr(<<"f", "a", "l", "s", "e">>),
       has_children |-> JStr(<<"f", "a", "l", "s", "e">>),
       post_locked |-> JInt(0)],
      [id |-> 2, md5 |-> "m2", image |-> <<"i">>, file_url |-> "u2",
       has_notes |-> JStr(<<"f", "a", "l", "s", "e">>),
       has_comments |-> JStr(<<"t", "r", "u", "e">>),
       has_children |-> JStr(<<"t", "r", "u", "e">>),
       post_locked |-> JInt(1)] }

\* the decoded JSON of a post query: the value under 'post', None when the
\* key is absent
PostResponses == {None} \cup {Some(s) : s \in SeqsUpTo(RawPosts, MaxRecords)}

\* the GET either yields a response or fails in the transport
Transport == {"ok", "fail"}

\* ------------------------------------------------------------ the client
Facades == 1..MaxFacades

\* the values a caller gives for api_key and user_id
Credentials == {None, Some(""), Some("k")}

\* BASE_API_URL: page=dapi, q=index, json=1, no credentials
BASE_API_URL == [json |-> TRUE, cred |-> None]

\* a URL: the client's base and the query parameters appended to it
Url(base) ==
    [ base |-> base, s |-> None, tags |-> None, limit |-> None, pid |-> None,
      id |-> None, post_id |-> None, names |-> None, name |-> None,
      name_pattern |-> None, after_id |-> None, orderby |-> None,
      order |-> None ]

Idle == [pc |-> "idle"]

\* the operation raised exc; urls are the GETs it had issued
Raised(op, f, a, exc, urls) ==
    [pc |-> "done", op |-> op, f |-> f, args |-> a, urls |-> urls,
     exc |-> exc, result |-> [kind |-> "none"], reply |-> [tx |-> "none"]]

\* the operation returned result
Returned(op, f, a, result, urls) ==
    [pc |-> "done", op |-> op, f |-> f, args |-> a, urls |-> urls,
     exc |-> "none", result |-> result, reply |-> [tx |-> "none"]]

\* the operation issued GET u and is suspended on it
Awaiting(op, f, a, u) ==
    [pc |-> "awaiting", op |-> op, f |-> f, args |-> a, urls |-> <<u>>,
     exc |-> "none", result |-> [kind |-> "none"], reply |-> [tx |-> "none"]]

\* the single caller awaits nothing
CallerIdle == call.pc = "idle"

\* the caller is suspended on the GET of op
Suspended(op) == call.pc = "awaiting" /\ call.op = op

\* AsyncGelbooru.__init__: the session is created first, the credentials
\* are checked after it
Construct(api_key, user_id) ==
    LET f == Cardinality({g \in Facades : session[g] # "none"}) + 1
        bad == (TruthyStr(api_key) \/ TruthyStr(user_id))
               /\ ~(TruthyStr(api_key) /\ TruthyStr(user_id))
    IN  /\ CallerIdle
        /\ f \in Facades
        /\ session' = [session EXCEPT ![f] = "open"]
        /\ IF bad
           THEN /\ call' = Raised("__init__", f,
                                  [api_key |-> api_key, user_id |-> user_id],
                                  "ValueError", <<>>)
                /\ UNCHANGED <<url, held>>
           ELSE /\ url' = [url EXCEPT ![f] =
                              IF TruthyStr(api_key) /\ TruthyStr(user_id)
                              THEN [json |-> TRUE,
                                    cred |-> Some([api_key |-> api_key.v,
                                                   user_id |-> user_id.v])]
                              ELSE BASE_API_URL]
                /\ held' = held \cup {f}
                /\ call' = Returned("__init__", f,
                                    [api_key |-> api_key, user_id |-> user_id],
                                    [kind |-> "facade"], <<>>)
        /\ UNCHANGED <<fmtIn, fmtOut, tagSet, mapIn, mapOut>>

\* AsyncGelbooru.close
Close(f) ==
    /\ CallerIdle
    /\ f \in held
    /\ session' = [session EXCEPT ![f] = "closed"]
    /\ UNCHANGED <<url, held, call, fmtIn, fmtOut, tagSet, mapIn, mapOut>>

\* AsyncGelbooru.__aexit__: the owning scope exits
AExit(f) ==
    /\ CallerIdle
    /\ f \in held
    /\ session[f] = "open"
    /\ session' = [session EXCEPT ![f] = "closed"]
    /\ UNCHANGED <<url, held, call, fmtIn, fmtOut, tagSet, mapIn, mapOut>>

\* the caller takes the outcome of the call it awaited
Return ==
    /\ call.pc = "done"
    /\ call' = Idle
    /\ UNCHANGED <<session, url, held, fmtIn, fmtOut, tagSet, mapIn, mapOut>>

\* what came back on the GET: a transport failure, or a decoded body
Reply(tx, body) ==
    IF tx = "fail" THEN [tx |-> "fail"] ELSE [tx |-> "ok", body |-> body]

\* a client the caller can call: obtained, and its session not yet closed
Usable(f) == f \in held /\ session[f] = "open"

\* ------------------------------------------------------------ Post(...)
\* the literal "true" the flags of a post row are compared with
TRUE_STR == JStr(<<"t", "r", "u", "e">>)

\* the Post built from one row (the fields read below)
PostOf(post) ==
    [id |-> post.id, md5 |-> post.md5, file_name |-> post.image,
     file_url |-> post.file_url, data |-> post,
     has_notes |-> py_eq(post.has_notes, TRUE_STR),
     has_comments |-> py_eq(post.has_comments, TRUE_STR),
     post_locked |-> bool(post.post_locked),
     has_children |-> py_eq(post.has_children, TRUE_STR)]

Posts == {PostOf(post) : post \in RawPosts}

\* ------------------------------------------------------------ search_posts
\* the tag lists a caller searches with
SampleTags == { <<<<"A", " ", "b">>>>, <<<<"a">>, <<" ", "B">>>> }
SampleExcludes == { None, Some(<<>>), Some(<<<<"-", "-", "a">>>>) }
SORT_RANDOM == <<"s", "o", "r", "t", ":", "r", "a", "n", "d", "o", "m">>
Limits == {1, 1000, 1001}
PageNumbers == {0, 1}

SearchPostsArgs ==
    [tags : SampleTags, exclude_tags : SampleExcludes, limit : Limits,
     page_number : PageNumbers, random : BOOLEAN]

\* the URL search_posts builds
search_posts_url(base, a) ==
    LET tags == IF a.random THEN a.tags \o <<SORT_RANDOM>> ELSE a.tags
        u == [Url(base) EXCEPT !.tags = Some(_format_tags(tags, a.exclude_tags)),
                               !.limit = Some(a.limit),
                               !.s = Some("post")]
    IN  IF a.page_number # 0 THEN [u EXCEPT !.pid = Some(a.page_number)] ELSE u

\* search_posts with the limit checked only after the GET went out
search_posts_check_after_get(f, base, a) ==
    IF a.limit > 1000
    THEN Raised("search_posts", f, a, "GelbooruLimitError",
                <<search_posts_url(base, a)>>)
    ELSE Awaiting("search_posts", f, a, search_posts_url(base, a))

\* search_posts up to the GET
search_posts_begin(f, base, a) ==
    IF a.limit > 1000
    THEN Raised("search_posts", f, a, "GelbooruLimitError", <<>>)
    ELSE Awaiting("search_posts", f, a, search_posts_url(base, a))

\* search_posts from the response on
search_posts_end(c, tx, resp) ==
    IF tx = "fail" THEN Raised(c.op, c.f, c.args, "ClientError", c.urls)
    ELSE IF resp = None THEN Raised(c.op, c.f, c.args, "KeyError", c.urls)
    ELSE Returned(c.op, c.f, c.args,
                  [kind |-> "posts",
                   items |-> [i \in 1..Len(resp.v) |-> PostOf(resp.v[i])]],
                  c.urls)

SearchPosts(f, a) ==
    /\ CallerIdle
    /\ Usable(f)
    /\ call' = search_posts_begin(f, url[f], a)
    /\ UNCHANGED <<session, url, held, fmtIn, fmtOut, tagSet, mapIn, mapOut>>

SearchPostsResponse(tx, resp) ==
    /\ Suspended("search_posts")
    /\ call' = [search_posts_end(call, tx, resp) EXCEPT !.reply = Reply(tx, resp)]
    /\ UNCHANGED <<session, url, held, fmtIn, fmtOut, tagSet, mapIn, mapOut>>

\* ------------------------------------------------------------ get_post
PostIds == {None, Some(0), Some(1), Some(2)}
Md5s == {None, Some(""), Some("m1"), Some("m2")}
GetPostArgs == [post_id : PostIds, md5 : Md5s]

\* get_post with the md5 of the returned row not compared
get_post_end_unchecked(c, tx, resp) ==
    IF tx = "fail" THEN Raised(c.op, c.f, c.args, "ClientError", c.urls)
    ELSE IF resp = None THEN Raised(c.op, c.f, c.args, "KeyError", c.urls)
    ELSE IF resp.v = <<>> THEN Raised(c.op, c.f, c.args, "IndexError", c.urls)
    ELSE Returned(c.op, c.f, c.args,
                  [kind |-> "post", post |-> PostOf(resp.v[1])], c.urls)

\* get_post up to the GET
get_post_begin(f, base, a) ==
    IF \/ TruthyInt(a.post_id) /\ TruthyStr(a.md5)
       \/ ~TruthyInt(a.post_id) /\ ~TruthyStr(a.md5)
    THEN Raised("get_post", f, a, "ValueError", <<>>)
    ELSE LET u == IF TruthyStr(a.md5)
                  THEN [Url(base) EXCEPT !.tags = Some(<<"md5:", a.md5.v>>)]
                  ELSE [Url(base) EXCEPT !.id = a.post_id]
         IN  Awaiting("get_post", f, a, [u EXCEPT !.s = Some("post")])

\* get_post from the response on
get_post_end(c, tx, resp) ==
    IF tx = "fail" THEN Raised(c.op, c.f, c.args, "ClientError", c.urls)
    ELSE IF resp = None THEN Raised(c.op, c.f, c.args, "KeyError", c.urls)
    ELSE IF resp.v = <<>> THEN Raised(c.op, c.f, c.args, "IndexError", c.urls)
    ELSE LET res == PostOf(resp.v[1])
         IN  IF TruthyStr(c.args.md5)
             THEN IF res.md5 # c.args.md5.v
                  THEN Returned(c.op, c.f, c.args, [kind |-> "empty"], c.urls)
                  ELSE Returned(c.op, c.f, c.args,
                                [kind |-> "post", post |-> res], c.urls)
             ELSE Returned(c.op, c.f, c.args, [kind |-> "post", post |-> res],
                           c.urls)

GetPost(f, a) ==
    /\ CallerIdle
    /\ Usable(f)
    /\ call' = get_post_begin(f, url[f], a)
    /\ UNCHANGED <<session, url, held, fmtIn, fmtOut, tagSet, mapIn, mapOut>>

GetPostResponse(tx, resp) ==
    /\ Suspended("get_post")
    /\ call' = [get_post_end(call, tx, resp) EXCEPT !.reply = Reply(tx, resp)]
    /\ UNCHANGED <<session, url, held, fmtIn, fmtOut, tagSet, mapIn, mapOut>>

\* ------------------------------------------------------------ Tag(...)
DigitValue(c) ==
    CASE c = "0" -> 0 [] c = "1" -> 1 [] c = "2" -> 2 [] c = "3" -> 3
      [] c = "4" -> 4 [] c = "5" -> 5 [] c = "6" -> 6 [] c = "7" -> 7
      [] c = "8" -> 8 [] c = "9" -> 9

\* int(s) of a string of decimal digits
RECURSIVE int(_)
int(s) ==
    IF Len(s) = 1 THEN DigitValue(s[1])
    ELSE 10 * int(SubSeq(s, 1, Len(s) - 1)) + DigitValue(s[Len(s)])

Digits == {"0", "1", "2", "3", "4", "5", "6", "7", "8", "9"}

\* int(x) raises ValueError: x is a string that is not a decimal number
int_raises(x) ==
    x.t = "str" /\ (x.s = <<>> \/ \E i \in 1..Len(x.s) : x.s[i] \notin Digits)

\* int(x) of a JSON scalar that int accepts
json_int(x) == IF x.t = "int" THEN x.n ELSE int(x.s)

\* the tag rows the remote service may send
RawTags ==
    { [id |-> <<"1">>, name |-> "a", type |-> "tag", count |-> <<"5">>,
       ambiguous |-> JInt(0)],
      [id |-> <<"1", "2">>, name |-> "b", type |-> "metadata",
       count |-> <<"0">>, ambiguous |-> JStr(<<"1">>)] }

\* the decoded JSON of a tag query: the value under 'tag', None when absent
TagResponses == {None} \cup {Some(s) : s \in SeqsUpTo(RawTags, MaxRecords)}

\* Tag(id=int(tag['id']), name=..., type=..., count=int(...),
\*     ambiguous=bool(int(tag['ambiguous'])))
TagOf(tag) ==
    [id |-> int(tag.id), name |-> tag.name, type |-> tag.type,
     count |-> int(tag.count), ambiguous |-> json_int(tag.ambiguous) # 0]

\* ------------------------------------------------------------ search_tags
SampleNames == { None, Some(<<<<"A", " ", "b">>>>) }
NamePatterns == { None, Some("a%") }
AfterIds == { None, Some(0), Some(5) }
Orders == { None, Some(<<"D", "E", "S", "C">>), Some(<<"u", "p">>) }
OrderBys == { None, Some("name"), Some("id") }

SearchTagsArgs ==
    [names : SampleNames, limit : {1}, name_pattern : NamePatterns,
     after_id : AfterIds, order : Orders, order_by : OrderBys]

\* search_tags up to the GET
search_tags_begin(f, base, a) ==
    LET u0 == [Url(base) EXCEPT !.s = Some("tag")]
        u1 == IF TruthySeq(a.names)
              THEN [u0 EXCEPT !.names = Some(_format_tags(a.names.v, None))]
              ELSE u0
        u2 == IF TruthyStr(a.name_pattern)
              THEN [u1 EXCEPT !.name_pattern = a.name_pattern]
              ELSE u1
        u3 == IF a.after_id # None THEN [u2 EXCEPT !.after_id = a.after_id]
              ELSE u2
        u4 == IF TruthyStr(a.order_by) THEN [u3 EXCEPT !.orderby = a.order_by]
              ELSE u3
        u5 == IF TruthySeq(a.order) THEN [u4 EXCEPT !.order = a.order] ELSE u4
    IN  IF TruthySeq(a.names) /\ TruthyStr(a.name_pattern)
        THEN Raised("search_tags", f, a, "ValueError", <<>>)
        ELSE IF TruthyStr(a.name_pattern) /\ TruthyInt(a.after_id)
        THEN Raised("search_tags", f, a, "ValueError", <<>>)
        ELSE IF TruthyStr(a.order_by)
                /\ a.order_by.v \notin {"date", "count", "name"}
        THEN Raised("search_tags", f, a, "ValueError", <<>>)
        ELSE IF TruthySeq(a.order)
                /\ lower(a.order.v) \notin {<<"a", "s", "c">>,
                                            <<"d", "e", "s", "c">>}
        THEN Raised("search_tags", f, a, "ValueError", <<>>)
        ELSE Awaiting("search_tags", f, a, [u5 EXCEPT !.limit = Some(a.limit)])

\* search_tags from the response on
search_tags_end(c, tx, resp) ==
    IF tx = "fail" THEN Raised(c.op, c.f, c.args, "ClientError", c.urls)
    ELSE IF resp = None THEN Raised(c.op, c.f, c.args, "KeyError", c.urls)
    ELSE Returned(c.op, c.f, c.args,
                  [kind |-> "tags",
                   items |-> [i \in 1..Len(resp.v) |-> TagOf(resp.v[i])]],
                  c.urls)

SearchTags(f, a) ==
    /\ CallerIdle
    /\ Usable(f)
    /\ call' = search_tags_begin(f, url[f], a)
    /\ UNCHANGED <<session, url, held, fmtIn, fmtOut, tagSet, mapIn, mapOut>>

SearchTagsResponse(tx, resp) ==
    /\ Suspended("search_tags")
    /\ call' = [search_tags_end(call, tx, resp) EXCEPT !.reply = Reply(tx, resp)]
    /\ UNCHANGED <<session, url, held, fmtIn, fmtOut, tagSet, mapIn, mapOut>>

\* ------------------------------------------------------------ get_tag
TagNames == { None, Some(<<>>), Some(<<"A", " ", "b">>) }
TagIds == { None, Some(0), Some(3) }
GetTagArgs == [name : TagNames, tag_id : TagIds]

\* get_tag up to the GET
get_tag_begin(f, base, a) ==
    IF \/ TruthySeq(a.name) /\ TruthyInt(a.tag_id)
       \/ ~TruthySeq(a.name) /\ ~TruthyInt(a.tag_id)
    THEN Raised("get_tag", f, a, "ValueError", <<>>)
    ELSE LET u == [Url(base) EXCEPT !.s = Some("tag")]
         IN  Awaiting("get_tag", f, a,
                 IF TruthySeq(a.name)
                 THEN [u EXCEPT !.name =
                          Some(rstrip(_format_tags(<<a.name.v>>, None), "+"))]
                 ELSE [u EXCEPT !.id = a.tag_id])

\* get_tag that sends its GET a second time when the first one failed
get_tag_end_retry(c, tx, resp) ==
    IF tx = "fail" THEN Raised(c.op, c.f, c.args, "ClientError", c.urls \o c.urls)
    ELSE IF resp = None THEN Raised(c.op, c.f, c.args, "KeyError", c.urls)
    ELSE IF resp.v = <<>> THEN Raised(c.op, c.f, c.args, "IndexError", c.urls)
    ELSE Returned(c.op, c.f, c.args,
                  [kind |-> "tag", tag |-> TagOf(resp.v[1])], c.urls)

\* get_tag from the response on
get_tag_end(c, tx, resp) ==
    IF tx = "fail" THEN Raised(c.op, c.f, c.args, "ClientError", c.urls)
    ELSE IF resp = None THEN Raised(c.op, c.f, c.args, "KeyError", c.urls)
    ELSE IF resp.v = <<>> THEN Raised(c.op, c.f, c.args, "IndexError", c.urls)
    ELSE Returned(c.op, c.f, c.args,
                  [kind |-> "tag", tag |-> TagOf(resp.v[1])], c.urls)

GetTag(f, a) ==
    /\ CallerIdle
    /\ Usable(f)
    /\ call' = get_tag_begin(f, url[f], a)
    /\ UNCHANGED <<session, url, held, fmtIn, fmtOut, tagSet, mapIn, mapOut>>

GetTagResponse(tx, resp) ==
    /\ Suspended("get_tag")
    /\ call' = [get_tag_end(call, tx, resp) EXCEPT !.reply = Reply(tx, resp)]
    /\ UNCHANGED <<session, url, held, fmtIn, fmtOut, tagSet, mapIn, mapOut>>

\* ------------------------------------------------------ get_post_comments
\* the <comment> elements the remote service may send, attributes as text
RawComments ==
    { [id |-> <<"4">>, post_id |-> <<"1">>, creator_id |-> <<>>,
       creator |-> "Anonymous", body |-> "first"],
      [id |-> <<"1", "0">>, post_id |-> <<"1">>, creator_id |-> <<"3", "7">>,
       creator |-> "bob", body |-> "second"] }

\* the XML bodies of a comment query: the <comment> children of <comments>
CommentResponses == SeqsUpTo(RawComments, MaxComments)

\* xmltodict.parse(xml)['comments'].get('comment'): no key without a child,
\* the bare element for one child, a list for several
xml_comment(elems) ==
    IF Len(elems) = 0 THEN [shape |-> "absent"]
    ELSE IF Len(elems) = 1 THEN [shape |-> "dict", v |-> elems[1]]
    ELSE [shape |-> "list", v |-> elems]

\* Comment(data=comment, post_id=int(...), content=..., author=...,
\*         comment_id=int(...), author_id=int(...) if ... else 0)
CommentOf(comment) ==
    [data |-> comment, post_id |-> int(comment.post_id),
     content |-> comment.body, author |-> comment.creator,
     comment_id |-> int(comment.id),
     author_id |-> IF comment.creator_id # <<>> THEN int(comment.creator_id)
                   ELSE 0]

\* get_post_comments up to the GET
get_post_comments_begin(f, base, a) ==
    Awaiting("get_post_comments", f, a,
             [Url([base EXCEPT !.json = FALSE]) EXCEPT
                 !.s = Some("comment"), !.post_id = Some(a.post.id)])

\* get_post_comments with a bare element not wrapped into a list: the loop
\* then runs over the keys of the element and the first subscript fails
get_post_comments_end_unwrapped(c, tx, elems) ==
    LET parsed == xml_comment(elems)
    IN  IF tx = "fail" THEN Raised(c.op, c.f, c.args, "ClientError", c.urls)
        ELSE IF parsed.shape = "absent"
        THEN Returned(c.op, c.f, c.args,
                      [kind |-> "comments", items |-> <<>>], c.urls)
        ELSE IF parsed.shape = "dict"
        THEN Raised(c.op, c.f, c.args, "TypeError", c.urls)
        ELSE Returned(c.op, c.f, c.args,
                      [kind |-> "comments",
                       items |-> [i \in 1..Len(parsed.v) |-> CommentOf(parsed.v[i])]],
                      c.urls)

\* get_post_comments from the response on
get_post_comments_end(c, tx, elems) ==
    LET parsed == xml_comment(elems)
        list == IF parsed.shape = "list" THEN parsed.v ELSE <<parsed.v>>
    IN  IF tx = "fail" THEN Raised(c.op, c.f, c.args, "ClientError", c.urls)
        ELSE IF parsed.shape # "absent"
        THEN Returned(c.op, c.f, c.args,
                      [kind |-> "comments",
                       items |-> [i \in 1..Len(list) |-> CommentOf(list[i])]],
                      c.urls)
        ELSE Returned(c.op, c.f, c.args,
                      [kind |-> "comments", items |-> <<>>], c.urls)

GetPostComments(f, a) ==
    /\ CallerIdle
    /\ Usable(f)
    /\ call' = get_post_comments_begin(f, url[f], a)
    /\ UNCHANGED <<session, url, held, fmtIn, fmtOut, tagSet, mapIn, mapOut>>

GetPostCommentsResponse(tx, elems) ==
    /\ Suspended("get_post_comments")
    /\ call' = [get_post_comments_end(call, tx, elems) EXCEPT !.reply = Reply(tx, elems)]
    /\ UNCHANGED <<session, url, held, fmtIn, fmtOut, tagSet, mapIn, mapOut>>

\* ------------------------------------------------------------ downloads
\* os.path.splitext(p)[1] for a path without directory separators: from the
\* last dot on, when a character other than a dot comes before that dot
splitext_ext(p) ==
    LET dots == {i \in 1..Len(p) : p[i] = "."}
    IN  IF dots = {} THEN <<>>
        ELSE LET d == CHOOSE i \in dots : \A j \in dots : j <= i
             IN  IF \E k \in 1..(d - 1) : p[k] # "."
                 THEN SubSeq(p, d, Len(p))
                 ELSE <<>>

\* Post.extension
extension(post) == splitext_ext(post.file_name)

Paths == { None, Some(<<>>), Some(<<"o">>), Some(<<"o", ".", "p">>) }
Streams == { None, Some("sink") }
Sessions == { None, Some("session") }
Contents == { <<>>, <<7, 8>> }
DownloadArgs == [post : Posts, path : Paths, session : Sessions, stream : Streams]

\* a destination given as an object: any stream or session is true
TruthyObj(o) == o # None

FileWrite(path, binary) == [dest |-> "file", path |-> path, bytes |-> binary]
StreamWrite(binary) == [dest |-> "stream", path |-> <<>>, bytes |-> binary]

\* async_download up to the GET
async_download_begin(a) ==
    IF TruthySeq(a.path) /\ TruthyObj(a.stream)
    THEN Raised("async_download", 0, a, "ValueError", <<>>)
    ELSE Awaiting("async_download", 0, a, [file_url |-> a.post.file_url])

\* async_download from the response on
async_download_end(c, tx, binary) ==
    LET a == c.args
    IN  IF tx = "fail" THEN Raised(c.op, c.f, a, "ClientError", c.urls)
        ELSE IF ~TruthySeq(a.path) /\ ~TruthyObj(a.stream)
        THEN Returned(c.op, c.f, a, [kind |-> "written", writes |-> <<>>], c.urls)
        ELSE IF TruthySeq(a.path)
        THEN LET path == IF splitext_ext(a.path.v) = <<>>
                         THEN a.path.v \o extension(a.post)
                         ELSE a.path.v
             IN  Returned(c.op, c.f, a,
                          [kind |-> "written",
                           writes |-> <<FileWrite(path, binary)>>], c.urls)
        ELSE Returned(c.op, c.f, a,
                      [kind |-> "written", writes |-> <<StreamWrite(binary)>>],
                      c.urls)

\* sync_download up to the GET
sync_download_begin(a) ==
    IF TruthySeq(a.path) /\ TruthyObj(a.stream)
    THEN Raised("sync_download", 0, a, "ValueError", <<>>)
    ELSE Awaiting("sync_download", 0, a, [file_url |-> a.post.file_url])

\* the path sync_download settles on before its GET
sync_download_path(a) ==
    IF ~TruthySeq(a.path) /\ ~TruthyObj(a.stream) THEN a.post.file_name
    ELSE IF TruthySeq(a.path)
    THEN IF splitext_ext(a.path.v) = <<>> THEN a.path.v \o extension(a.post)
         ELSE a.path.v
    ELSE IF a.path = None THEN <<>> ELSE a.path.v

\* sync_download from the response on
sync_download_end(c, tx, content) ==
    LET a == c.args
    IN  IF tx = "fail" THEN Raised(c.op, c.f, a, "ConnectionError", c.urls)
        ELSE IF TruthyObj(a.stream)
        THEN Returned(c.op, c.f, a,
                      [kind |-> "written", writes |-> <<StreamWrite(content)>>],
                      c.urls)
        ELSE Returned(c.op, c.f, a,
                      [kind |-> "written",
                       writes |-> <<FileWrite(sync_download_path(a), content)>>],
                      c.urls)

AsyncDownload(a) ==
    /\ CallerIdle
    /\ call' = async_download_begin(a)
    /\ UNCHANGED <<session, url, held, fmtIn, fmtOut, tagSet, mapIn, mapOut>>

AsyncDownloadResponse(tx, binary) ==
    /\ Suspended("async_download")
    /\ call' = [async_download_end(call, tx, binary) EXCEPT !.reply = Reply(tx, binary)]
    /\ UNCHANGED <<session, url, held, fmtIn, fmtOut, tagSet, mapIn, mapOut>>

SyncDownload(a) ==
    /\ CallerIdle
    /\ call' = sync_download_begin(a)
    /\ UNCHANGED <<session, url, held, fmtIn, fmtOut, tagSet, mapIn, mapOut>>

SyncDownloadResponse(tx, content) ==
    /\ Suspended("sync_download")
    /\ call' = [sync_download_end(call, tx, content) EXCEPT !.reply = Reply(tx, content)]
    /\ UNCHANGED <<session, url, held, fmtIn, fmtOut, tagSet, mapIn, mapOut>>

\* ------------------------------------------------------------ the client run
Init ==
    /\ session = [f \in Facades |-> "none"]
    /\ url = [f \in Facades |-> BASE_API_URL]
    /\ held = {}
    /\ call = Idle
    /\ fmtIn = None
    /\ fmtOut = None
    /\ tagSet = <<>>
    /\ mapIn = None
    /\ mapOut = None

Next ==
    \/ CallerIdle /\ \E api_key \in Credentials, user_id \in Credentials :
           Construct(api_key, user_id)
    \/ CallerIdle /\ \E f \in held : Close(f)
    \/ CallerIdle /\ \E f \in held : AExit(f)
    \/ Return
    \/ CallerIdle /\ \E f \in held, a \in SearchPostsArgs : SearchPosts(f, a)
    \/ Suspended("search_posts")
       /\ \E tx \in Transport, resp \in PostResponses : SearchPostsResponse(tx, resp)
    \/ CallerIdle /\ \E f \in held, a \in GetPostArgs : GetPost(f, a)
    \/ Suspended("get_post")
       /\ \E tx \in Transport, resp \in PostResponses : GetPostResponse(tx, resp)
    \/ CallerIdle /\ \E f \in held, a \in [post : Posts] : GetPostComments(f, a)
    \/ Suspended("get_post_comments")
       /\ \E tx \in Transport, elems \in CommentResponses :
              GetPostCommentsResponse(tx, elems)
    \/ CallerIdle /\ \E f \in held, a \in SearchTagsArgs : SearchTags(f, a)
    \/ Suspended("search_tags")
       /\ \E tx \in Transport, resp \in TagResponses : SearchTagsResponse(tx, resp)
    \/ CallerIdle /\ \E f \in held, a \in GetTagArgs : GetTag(f, a)
    \/ Suspended("get_tag")
       /\ \E tx \in Transport, resp \in TagResponses : GetTagResponse(tx, resp)
    \/ CallerIdle /\ \E a \in DownloadArgs : AsyncDownload(a)
    \/ Suspended("async_download")
       /\ \E tx \in Transport, binary \in Contents : AsyncDownloadResponse(tx, binary)
    \/ CallerIdle /\ \E a \in DownloadArgs : SyncDownload(a)
    \/ Suspended("sync_download")
       /\ \E tx \in Transport, content \in Contents : SyncDownloadResponse(tx, content)

Spec == Init /\ [][Next]_vars

\* ------------------------------------------------------------ the Tag class
\* the Tag values a program builds
TagValues ==
    [id : {1, 12}, type : {"tag", "metadata"}, name : {"a", "b"},
     count : {0, 5}, ambiguous : BOOLEAN]

\* the fields the generated __eq__ and __hash__ read: every field of the
\* dataclass has compare=True (the default), id also says so explicitly
TagCompareFields(t) == <<t.id, t.type, t.name, t.count, t.ambiguous>>

\* Tag.__eq__, generated by @dataclass
Tag__eq__(a, b) == TagCompareFields(a) = TagCompareFields(b)

\* Tag.__hash__, generated by @dataclass(frozen=True): the hash of the tuple
Tag__hash__(a) == TagCompareFields(a)

\* Tag.is_meta
is_meta(t) == t.type = "metadata"

\* set.add: the element is dropped when one with its hash and equal is in
set_add(s, t) ==
    IF \E i \in 1..Len(s) : Tag__hash__(s[i]) = Tag__hash__(t) /\ Tag__eq__(s[i], t)
    THEN s
    ELSE Append(s, t)

AddTag(t) ==
    /\ Len(tagSet) < MaxSetSize
    /\ tagSet' = set_add(tagSet, t)
    /\ UNCHANGED <<session, url, held, call, fmtIn, fmtOut, mapIn, mapOut>>

NextTag == \E t \in TagValues : AddTag(t)

SpecTag == Init /\ [][NextTag]_vars

\* ------------------------------------------------------------ the formatter run
FormatChars == {"A", " ", "-"}
FreeTags == SeqsUpTo(FormatChars, MaxTagLen)
FreeTagLists == SeqsUpTo(FreeTags, MaxTags)

\* the arguments given to _format_tags with the include list free
FreeIncludeInputs ==
    {[include |-> l, exclude |-> e, round |-> 0] :
        l \in FreeTagLists, e \in SampleExcludes}

\* the arguments given to _format_tags with the exclude list free
FreeExcludeInputs ==
    {[include |-> l, exclude |-> Some(e), round |-> 0] :
        l \in SampleTags, e \in FreeTagLists}

InitFormat ==
    /\ session = [f \in Facades |-> "none"]
    /\ url = [f \in Facades |-> BASE_API_URL]
    /\ held = {}
    /\ call = Idle
    /\ \/ fmtIn \in FreeIncludeInputs
       \/ fmtIn \in FreeExcludeInputs
    /\ fmtOut = None
    /\ tagSet = <<>>
    /\ mapIn = None
    /\ mapOut = None

Formatted(in) ==
    Some([include |-> IncludeEntries(in.include),
          exclude |-> ExcludeEntries(in.exclude),
          text |-> _format_tags(in.include, in.exclude)])

\* _format_tags(include_tags, exclude_tags)
FormatTags ==
    /\ fmtOut = None
    /\ fmtOut' = Formatted(fmtIn)
    /\ UNCHANGED <<session, url, held, call, fmtIn, tagSet, mapIn, mapOut>>

\* the formatted entries are given to _format_tags again
FormatAgain ==
    /\ fmtOut # None
    /\ fmtIn.round = 0
    /\ fmtIn' = [include |-> fmtOut.v.include, exclude |-> Some(fmtOut.v.exclude),
                 round |-> 1]
    /\ fmtOut' = Formatted(fmtIn')
    /\ UNCHANGED <<session, url, held, call, tagSet, mapIn, mapOut>>

NextFormat == FormatTags \/ FormatAgain

SpecFormat == InitFormat /\ [][NextFormat]_vars

\* ------------------------------------------------------------ the mapper run
\* the values the remote service may send for a flag: strings and 0/1
FlagValues ==
    { TRUE_STR, JStr(<<"f", "a", "l", "s", "e">>), JStr(<<"T", "r", "u", "e">>),
      JStr(<<"1">>), JStr(<<>>), JInt(0), JInt(1) }

\* post rows with every combination of flag values
FlagPostRows ==
    { [post EXCEPT !.has_notes = n, !.has_comments = c, !.has_children = h,
                   !.post_locked = l] :
        post \in RawPosts, n \in FlagValues, c \in FlagValues,
        h \in FlagValues, l \in FlagValues }

\* tag rows with every flag value
FlagTagRows == { [tag EXCEPT !.ambiguous = a] : tag \in RawTags, a \in FlagValues }

InitMap ==
    /\ session = [f \in Facades |-> "none"]
    /\ url = [f \in Facades |-> BASE_API_URL]
    /\ held = {}
    /\ call = Idle
    /\ fmtIn = None
    /\ fmtOut = None
    /\ tagSet = <<>>
    /\ \/ \E post \in FlagPostRows : mapIn = [kind |-> "post", row |-> post]
       \/ \E tag \in FlagTagRows : mapIn = [kind |-> "tag", row |-> tag]
    /\ mapOut = None

\* Post(...) on one row of a post response
MapPost ==
    /\ mapOut = None
    /\ mapIn.kind = "post"
    /\ mapOut' = Some([exc |-> "none", rec |-> PostOf(mapIn.row)])
    /\ UNCHANGED <<session, url, held, call, fmtIn, fmtOut, tagSet, mapIn>>

\* Tag(...) on one row of a tag response
MapTag ==
    /\ mapOut = None
    /\ mapIn.kind = "tag"
    /\ mapOut' = IF int_raises(mapIn.row.ambiguous)
                 THEN Some([exc |-> "ValueError"])
                 ELSE Some([exc |-> "none", rec |-> TagOf(mapIn.row)])
    /\ UNCHANGED <<session, url, held, call, fmtIn, fmtOut, tagSet, mapIn>>

NextMap == MapPost \/ MapTag

SpecMap == InitMap /\ [][NextMap]_vars

\* ------------------------------------------------------------ the claims
Done(op) == call.pc = "done" /\ call.op = op
Answered(op) == Done(op) /\ call.reply.tx = "ok"
Gets == Len(call.urls)

\* C1: a call that ends in ValueError or GelbooruLimitError has issued no
\* GET; search_posts with a limit over 1000 ends in GelbooruLimitError without
\* a GET, and a download given both a path and a stream ends in ValueError
\* without a GET.
C1_ValidationBeforeAnyGet ==
    call.pc # "idle" =>
        /\ call.pc = "done"
           /\ call.op \in {"search_posts", "get_post", "search_tags", "get_tag",
                           "async_download", "sync_download"}
           /\ call.exc \in {"ValueError", "GelbooruLimitError"}
           => Gets = 0
        /\ call.op = "search_posts" /\ call.args.limit > 1000
           => call.pc = "done" /\ call.exc = "GelbooruLimitError" /\ Gets = 0
        /\ call.op \in {"async_download", "sync_download"}
           /\ TruthySeq(call.args.path) /\ call.args.stream # None
           => call.pc = "done" /\ call.exc = "ValueError" /\ Gets = 0

\* C1 witness: search_posts(limit=1001) has ended in GelbooruLimitError
C1_Witness ==
    /\ Done("search_posts")
    /\ call.args.limit = 1001
    /\ call.exc = "GelbooruLimitError"

\* C2: get_post ends in ValueError without a GET whenever both post_id and
\* md5 are given or neither is, whatever their values; it issues a GET only
\* when exactly one of them is given.
C2_GetPostNeedsExactlyOne ==
    call.pc # "idle" /\ call.op = "get_post" =>
        LET both == call.args.post_id # None /\ call.args.md5 # None
            neither == call.args.post_id = None /\ call.args.md5 = None
        IN  /\ both \/ neither
               => call.pc = "done" /\ call.exc = "ValueError" /\ Gets = 0
            /\ Gets > 0 => ~both /\ ~neither

\* C3: search_tags ends in ValueError whenever a non-empty name_pattern and
\* an after_id are both given, and no GET carries both parameters.
C3_PatternExcludesAfterId ==
    call.pc # "idle" /\ call.op = "search_tags" =>
        /\ TruthyStr(call.args.name_pattern) /\ call.args.after_id # None
           => call.pc = "done" /\ call.exc = "ValueError"
        /\ \A i \in 1..Gets :
               ~(call.urls[i].name_pattern # None /\ call.urls[i].after_id # None)

\* C4: when the response to search_posts, get_post or search_tags holds no
\* record (an empty list, or no list), the operation returns the empty
\* result and raises nothing.
C4_NotFoundIsEmpty ==
    /\ call.pc = "done"
    /\ call.op \in {"search_posts", "get_post", "search_tags"}
    /\ call.reply.tx = "ok"
    /\ (call.reply.body = None \/ call.reply.body.v = <<>>)
    => /\ call.exc = "none"
       /\ \/ call.result.kind = "empty"
          \/ call.result.kind \in {"posts", "tags"} /\ call.result.items = <<>>

\* C5: get_post(md5=X) returns the empty result when the row that came back
\* has another md5, returns that row's Post when it has md5 X, and so never
\* returns a Post whose md5 is not X.
C5_Md5MismatchIsEmpty ==
    /\ Answered("get_post")
    /\ call.args.post_id = None
    /\ call.args.md5 # None
    /\ call.reply.body # None
    /\ call.reply.body.v # <<>>
    => LET row == call.reply.body.v[1]
           X == call.args.md5.v
       IN  /\ call.exc = "none"
           /\ row.md5 # X => call.result = [kind |-> "empty"]
           /\ row.md5 = X => /\ call.result.kind = "post"
                             /\ call.result.post.data = row
           /\ call.result.kind = "post" => call.result.post.md5 = X

\* C5 witness: get_post(md5="m1") was answered with the row of md5 "m2"
C5_Witness ==
    /\ Answered("get_post")
    /\ call.args.post_id = None
    /\ call.args.md5 = Some("m1")
    /\ call.reply.body # None
    /\ call.reply.body.v # <<>>
    /\ call.reply.body.v[1].md5 = "m2"
    /\ call.result = [kind |-> "empty"]

\* C6: two Tag values with the same id are equal and hash equal whatever
\* their other fields, so a set never holds two Tags of one id.
C6_TagKeyedOnId ==
    \A i, j \in 1..Len(tagSet) : tagSet[i].id = tagSet[j].id => i = j

\* C7: for the same post, content and destination arguments the blocking and
\* the non-blocking download write the same bytes to the same destination,
\* and with no destination both write the content to the post's file name.
C7_DownloadVariantsAgree ==
    /\ call.pc = "done"
    /\ call.op \in {"async_download", "sync_download"}
    /\ call.reply.tx = "ok"
    => LET other == IF call.op = "async_download"
                    THEN sync_download_end(call, "ok", call.reply.body)
                    ELSE async_download_end(call, "ok", call.reply.body)
       IN  /\ call.result = other.result
           /\ ~TruthySeq(call.args.path) /\ call.args.stream = None
              => call.result.writes
                     = <<FileWrite(call.args.post.file_name, call.reply.body)>>

\* C8: once the caller has closed every client it obtained, no session that
\* a constructor created is still open, also when a constructor raised.
C8_NoSessionLeak ==
    (\A f \in held : session[f] = "closed")
    => \A f \in Facades : session[f] # "open"

\* C9: get_post_comments returns one Comment per <comment> element, in the
\* remote order: none for no element, and for a single (bare) element the
\* record that element gives as the first of several.
C9_CommentShapesNormalized ==
    Answered("get_post_comments") =>
        LET elems == call.reply.body
        IN  /\ call.exc = "none"
            /\ call.result.kind = "comments"
            /\ Len(call.result.items) = Len(elems)
            /\ \A i \in 1..Len(elems) :
                   /\ call.result.items[i].data = elems[i]
                   /\ call.result.items[i].comment_id = int(elems[i].id)
            /\ Len(elems) = 1 =>
                   \A e \in RawComments :
                       LET several == get_post_comments_end(call, "ok", <<elems[1], e>>)
                       IN  /\ several.exc = "none"
                           /\ Len(several.result.items) = 2
                           /\ call.result.items = <<several.result.items[1]>>

\* C9 witness: one bare element came back and one Comment was returned
C9_Witness ==
    /\ Answered("get_post_comments")
    /\ Len(call.reply.body) = 1
    /\ call.exc = "none"
    /\ Len(call.result.items) = 1

\* C10: every formatted entry is lowercase and holds no space, every
\* formatted exclude entry starts with one minus sign and not two, and the
\* formatted exclude entries come out unchanged when formatted again.
C10_FormatterNormalizes ==
    fmtOut # None =>
        /\ Len(fmtOut.v.include) = Len(fmtIn.include)
        /\ \A e \in Range(fmtOut.v.include) \cup Range(fmtOut.v.exclude) :
               \A i \in 1..Len(e) : e[i] \notin {"A", "B", " "}
        /\ \A e \in Range(fmtOut.v.exclude) :
               /\ Len(e) >= 1
               /\ e[1] = "-"
               /\ Len(e) >= 2 => e[2] # "-"
        /\ fmtIn.round = 0 /\ fmtIn.exclude # None
           => Len(fmtOut.v.exclude) = Len(fmtIn.exclude.v)
        /\ fmtIn.round = 1 => fmtOut.v.exclude = fmtIn.exclude.v

\* C10 witness: the exclude tag "--A" was formatted to "-a"
C10_Witness ==
    /\ fmtOut # None
    /\ fmtIn.round = 0
    /\ fmtIn.exclude = Some(<<<<"-", "-", "A">>>>)
    /\ fmtOut.v.exclude = <<<<"-", "a">>>>

\* the flag b is the claimed coercion of the remote value v: for a string,
\* true exactly for "true"; for an integer, true for 1 and false for 0
Coerced(v, b) ==
    IF v.t = "str" THEN b = (v.s = <<"t", "r", "u", "e">>)
    ELSE (v.n = 1 => b) /\ (v.n = 0 => ~b)

\* C11: every boolean field of a Post (has_notes, has_comments,
\* has_children, post_locked) and of a Tag (ambiguous) is true for the remote
\* string "true", false for any other string, true for the integer 1 and
\* false for the integer 0; the mapping raises nothing on these values.
C11_BooleanCoercion ==
    mapOut # None =>
        /\ mapOut.v.exc = "none"
        /\ mapIn.kind = "post" =>
               /\ Coerced(mapIn.row.has_notes, mapOut.v.rec.has_notes)
               /\ Coerced(mapIn.row.has_comments, mapOut.v.rec.has_comments)
               /\ Coerced(mapIn.row.has_children, mapOut.v.rec.has_children)
               /\ Coerced(mapIn.row.post_locked, mapOut.v.rec.post_locked)
        /\ mapIn.kind = "tag" =>
               Coerced(mapIn.row.ambiguous, mapOut.v.rec.ambiguous)

\* C12: an operation of the client that passes its parameter checks issues
\* exactly one GET and none after it; when that GET fails in the transport
\* the operation ends in the transport's error, with no result and no
\* second GET.
C12_OneGetNoRetry ==
    /\ call.pc # "idle"
    /\ call.op \in {"search_posts", "get_post", "get_post_comments",
                    "search_tags", "get_tag"}
    => /\ Gets <= 1
       /\ call.pc = "awaiting" => Gets = 1
       /\ call.pc = "done" /\ call.exc \notin {"ValueError", "GelbooruLimitError"}
          => Gets = 1
       /\ call.op = "get_post_comments" => Gets = 1
       /\ call.op = "search_posts" /\ call.args.limit <= 1000 => Gets = 1
       /\ call.reply.tx = "fail"
          => /\ call.pc = "done"
             /\ call.exc = "ClientError"
             /\ call.result.kind = "none"
             /\ Gets = 1

\* C12 witness: the GET of get_tag failed in the transport and get_tag ended
\* in that error after its one GET
C12_Witness ==
    /\ Done("get_tag")
    /\ call.reply.tx = "fail"
    /\ call.exc = "ClientError"
    /\ Gets = 1

=============================================================================
